---- MODULE Spec2Model ----
(***************************************************************************)
(* Model of src/app/api/feed/route.js: the Google Merchant feed route.     *)
(*                                                                         *)
(* JavaScript strings are TLA+ strings (TLC evaluates Len, SubSeq and \o   *)
(* on them).  Every other JavaScript value is a tagged record, so that     *)
(* truthiness, strict equality and string conversion are computed the way  *)
(* the language computes them.  An object is a record whose DOMAIN holds   *)
(* exactly the properties that are present; an array is a sequence.        *)
(***************************************************************************)
EXTENDS Integers, Sequences, FiniteSets, TLC

VARIABLES
    env,        \* process.env: which of the two credentials are set
    pc,         \* where GET is: "idle", "awaiting" (a page request is in flight), "done"
    products,   \* fetchAllProducts: the accumulator `products`
    response,   \* fetchAllProducts: pageInfo.nextPage of the last response
    requests,   \* observed: the query of every request sent, in order
    served,     \* observed: every response the source gave, in order
    rows,       \* GET: the array `rows`
    reply,      \* GET: the response returned to the caller
    product,    \* buildItemRow called on its own: argument `product`
    variant,    \* buildItemRow called on its own: argument `variant`
    outcome     \* buildItemRow called on its own: what the call did

vars == <<env, pc, products, response, requests, served, rows, reply,
          product, variant, outcome>>

---------------------------------------------------------------------------
(* JavaScript values *)

undefined == [t |-> "undefined"]
null == [t |-> "null"]
NaN == [t |-> "NaN"]
Str(s) == [t |-> "string", s |-> s]
Num(n) == [t |-> "number", n |-> n]
\* a number with two decimals, held as an integer count of hundredths
Dec(c) == [t |-> "decimal", cents |-> c]
\* the exception thrown by calling a method on undefined or null
TypeError == [t |-> "TypeError"]

\* obj.f: undefined when the property is absent
Get(obj, f) == IF f \in DOMAIN obj THEN obj[f] ELSE undefined

Truthy(v) ==
    CASE v.t = "undefined" -> FALSE
      [] v.t = "null" -> FALSE
      [] v.t = "NaN" -> FALSE
      [] v.t = "string" -> v.s # ""
      [] v.t = "number" -> v.n # 0
      [] v.t = "decimal" -> v.cents # 0
      [] OTHER -> TRUE

\* a || b
Or(a, b) == IF Truthy(a) THEN a ELSE b

Char(s, i) == SubSeq(s, i, i)

Rest(s, i) == SubSeq(s, i, Len(s))

Includes(s, c) == \E i \in 1..Len(s) : Char(s, i) = c

Digits == "0123456789"

IsDigit(c) == Includes(Digits, c)

DigitVal(c) == (CHOOSE i \in 1..10 : Char(Digits, i) = c) - 1

RECURSIVE NatToString(_)
NatToString(n) ==
    IF n < 10 THEN Char(Digits, n + 1)
    ELSE NatToString(n \div 10) \o Char(Digits, (n % 10) + 1)

NumberToString(n) == IF n < 0 THEN "-" \o NatToString(-n) ELSE NatToString(n)

\* Number.prototype.toFixed(2)
toFixed2(v) ==
    IF v.t = "NaN" THEN "NaN"
    ELSE LET c == v.cents
             a == IF c < 0 THEN -c ELSE c
         IN  (IF c < 0 THEN "-" ELSE "") \o NatToString(a \div 100) \o "."
                 \o Char(Digits, ((a \div 10) % 10) + 1) \o Char(Digits, (a % 10) + 1)

\* String(v), also what a template literal `${v}` inserts
String(v) ==
    CASE v.t = "string" -> v.s
      [] v.t = "number" -> NumberToString(v.n)
      [] v.t = "decimal" -> toFixed2(v)
      [] v.t = "undefined" -> "undefined"
      [] v.t = "null" -> "null"
      [] v.t = "NaN" -> "NaN"

IsSpace(c) == c \in {" ", "\n", "\t", "\r"}

RECURSIVE TrimStart(_)
TrimStart(s) ==
    IF s # "" /\ IsSpace(Char(s, 1)) THEN TrimStart(Rest(s, 2)) ELSE s

RECURSIVE TrimEnd(_)
TrimEnd(s) ==
    IF s # "" /\ IsSpace(Char(s, Len(s))) THEN TrimEnd(SubSeq(s, 1, Len(s) - 1)) ELSE s

RECURSIVE DigitRunEnd(_, _)
\* the first position at or after i that holds no digit
DigitRunEnd(s, i) ==
    IF i <= Len(s) /\ IsDigit(Char(s, i)) THEN DigitRunEnd(s, i + 1) ELSE i

RECURSIVE DigitsValue(_)
DigitsValue(s) ==
    IF s = "" THEN 0
    ELSE DigitsValue(SubSeq(s, 1, Len(s) - 1)) * 10 + DigitVal(Char(s, Len(s)))

\* parseFloat(v): the longest decimal prefix of String(v) after leading white
\* space, NaN when there is none.  Exact for at most two fraction digits.
parseFloat(v) ==
    LET s == TrimStart(String(v))
        neg == s # "" /\ Char(s, 1) = "-"
        i0 == IF neg THEN 2 ELSE 1
        intEnd == DigitRunEnd(s, i0)
        hasDot == intEnd <= Len(s) /\ Char(s, intEnd) = "."
        fracEnd == IF hasDot THEN DigitRunEnd(s, intEnd + 1) ELSE intEnd
        intDigits == SubSeq(s, i0, intEnd - 1)
        fracDigits == IF hasDot THEN SubSeq(s, intEnd + 1, fracEnd - 1) ELSE ""
        mag == DigitsValue(intDigits) * 100 + DigitsValue(SubSeq(fracDigits \o "00", 1, 2))
    IN  IF intDigits = "" /\ fracDigits = "" THEN NaN
        ELSE Dec(IF neg THEN -mag ELSE mag)

\* ToNumber(v), as the relational operators apply it
ToNumber(v) ==
    CASE v.t = "number" -> v
      [] v.t = "decimal" -> v
      [] v.t = "null" -> Num(0)
      [] OTHER -> NaN

\* a > b on numbers of one kind; any comparison with NaN is false
GreaterThan(a, b) ==
    LET x == ToNumber(a)
        y == ToNumber(b)
    IN  /\ x.t # "NaN"
        /\ y.t # "NaN"
        /\ IF x.t = "decimal" THEN x.cents > y.cents ELSE x.n > y.n

\* TLC keeps the strings of a state as bytes, so the letters outside ASCII that
\* the route names are written with stand-in characters of their own:
\* o-umlaut in lower and upper case, and sharp s
LowerOUml == "^"

UpperOUml == "@"

SharpS == "$"

UpperChars == "ABCDEFGHIJKLMNOPQRSTUVWXYZ" \o UpperOUml

LowerChars == "abcdefghijklmnopqrstuvwxyz" \o LowerOUml

\* the lower-case form of every upper-case character
LowerMap ==
    [c \in {Char(UpperChars, i) : i \in 1..Len(UpperChars)} |->
        Char(LowerChars, CHOOSE i \in 1..Len(UpperChars) : Char(UpperChars, i) = c)]

LowerChar(c) == IF c \in DOMAIN LowerMap THEN LowerMap[c] ELSE c

RECURSIVE toLowerCase(_)
toLowerCase(s) ==
    IF s = "" THEN "" ELSE LowerChar(Char(s, 1)) \o toLowerCase(Rest(s, 2))

RECURSIVE Join(_, _)
\* Array.prototype.join on an array of strings
Join(strs, sep) ==
    IF Len(strs) = 0 THEN ""
    ELSE IF Len(strs) = 1 THEN strs[1]
    ELSE strs[1] \o sep \o Join(Tail(strs), sep)

\* what join inserts for an element: nothing for undefined and null
JoinText(v) == IF v.t \in {"undefined", "null"} THEN "" ELSE String(v)

---------------------------------------------------------------------------
(* Constants of the route *)

SHOP_DOMAIN == "https://lunaglow.de"

CURRENCY == "EUR"

CSV_HEADERS ==
    << "id", "title", "description", "link", "image_link", "additional_image_link",
       "availability", "price", "sale_price", "brand", "condition", "gtin",
       "identifier_exists", "product_type", "item_group_id", "color", "size",
       "material", "shipping_weight" >>

---------------------------------------------------------------------------
(* escapeCsv *)

RECURSIVE DoubleQuotes(_)
\* value.replace(/"/g, '""')
DoubleQuotes(s) ==
    IF s = "" THEN ""
    ELSE (IF Char(s, 1) = "\"" THEN "\"\"" ELSE Char(s, 1)) \o DoubleQuotes(Rest(s, 2))

\* escapeCsv wrapping a field without doubling its quotes
escapeCsvNoDoubling(str) ==
    IF ~Truthy(str) THEN ""
    ELSE LET value == String(str)
         IN  IF Includes(value, "\"") \/ Includes(value, ",") \/ Includes(value, "\n")
             THEN "\"" \o value \o "\""
             ELSE value

escapeCsv(str) ==
    IF ~Truthy(str) THEN ""
    ELSE LET value == String(str)
         IN  IF Includes(value, "\"") \/ Includes(value, ",") \/ Includes(value, "\n")
             THEN "\"" \o DoubleQuotes(value) \o "\""
             ELSE value

---------------------------------------------------------------------------
(* stripHtml *)

RECURSIVE StripTags(_)
\* html.replace(/<[^>]*>/g, ""): a "<" with no ">" after it stays
StripTags(s) ==
    IF s = "" THEN ""
    ELSE IF Char(s, 1) = "<" /\ Includes(Rest(s, 2), ">")
    THEN LET j == CHOOSE j \in 2..Len(s) :
                      Char(s, j) = ">" /\ \A k \in 2..(j - 1) : Char(s, k) # ">"
         IN  StripTags(Rest(s, j + 1))
    ELSE Char(s, 1) \o StripTags(Rest(s, 2))

RECURSIVE CollapseSpace(_)
\* .replace(/\s+/g, " ")
CollapseSpace(s) ==
    IF s = "" THEN ""
    ELSE IF IsSpace(Char(s, 1)) THEN " " \o CollapseSpace(TrimStart(s))
    ELSE Char(s, 1) \o CollapseSpace(Rest(s, 2))

stripHtml(html) ==
    IF ~Truthy(html) THEN ""
    ELSE TrimEnd(TrimStart(CollapseSpace(StripTags(html.s))))

---------------------------------------------------------------------------
(* getAvailability *)

getAvailability(v, productStatus) ==
    IF productStatus # Str("active") THEN "out_of_stock"
    ELSE IF Get(v, "inventory_management") = null THEN "in_stock"
    ELSE IF GreaterThan(Get(v, "inventory_quantity"), Num(0)) THEN "in_stock"
    ELSE "out_of_stock"

---------------------------------------------------------------------------
(* getVariantOptionByName *)

\* whether o.name.toLowerCase() can be called: it is a TypeError otherwise
NameIsString(o) == Get(o, "name").t = "string"

\* o.name.toLowerCase() === optionName.toLowerCase()
OptionMatches(o, optionName) ==
    toLowerCase(Get(o, "name").s) = toLowerCase(optionName)

\* options.find(...) with that predicate: the index of the first match, 0 when
\* there is none, -1 when the predicate throws before any match
FindOption(options, optionName) ==
    LET bad == {i \in 1..Len(options) : ~NameIsString(options[i])}
        hit == {i \in 1..Len(options) :
                    NameIsString(options[i]) /\ OptionMatches(options[i], optionName)}
        first(S) == CHOOSE i \in S : \A j \in S : i <= j
    IN  IF hit # {} /\ (bad = {} \/ first(hit) < first(bad)) THEN first(hit)
        ELSE IF bad # {} THEN -1
        ELSE 0

\* getVariantOptionByName reading the slot at the option's place in the list
\* instead of the slot its position names
getVariantOptionByIndex(p, v, optionName) ==
    IF "options" \notin DOMAIN p THEN null
    ELSE LET i == FindOption(p.options, optionName)
         IN  IF i = -1 THEN TypeError
             ELSE IF i = 0 THEN null
             ELSE Or(Get(v, "option" \o NatToString(i)), null)

getVariantOptionByName(p, v, optionName) ==
    IF "options" \notin DOMAIN p THEN null
    ELSE LET i == FindOption(p.options, optionName)
         IN  IF i = -1 THEN TypeError
             ELSE IF i = 0 THEN null
             ELSE Or(Get(v, "option" \o String(Get(p.options[i], "position"))), null)

---------------------------------------------------------------------------
(* buildItemRow *)

\* a || b where evaluating a may throw
OrElse(a, b) == IF a = TypeError THEN TypeError ELSE Or(a, b)

colorOf(p, v) ==
    OrElse(getVariantOptionByName(p, v, "Color"),
           OrElse(getVariantOptionByName(p, v, "Farbe"), Str("")))

\* the second literal of line 76: G, r, o-umlaut, sharp s, e
Groesse == "Gr" \o LowerOUml \o SharpS \o "e"

sizeOf(p, v) ==
    OrElse(getVariantOptionByName(p, v, "Size"),
           OrElse(getVariantOptionByName(p, v, Groesse), Str("")))

materialOf(p, v) == OrElse(getVariantOptionByName(p, v, "Material"), Str(""))

CodeOrder == ".0123456789"

CodeOf(c) == CHOOSE i \in 1..Len(CodeOrder) : Char(CodeOrder, i) = c

RECURSIVE LexGreater(_, _)
\* a > b on strings: by code unit, left to right
LexGreater(a, b) ==
    IF a = "" THEN FALSE
    ELSE IF b = "" THEN TRUE
    ELSE IF Char(a, 1) = Char(b, 1) THEN LexGreater(Rest(a, 2), Rest(b, 2))
    ELSE CodeOf(Char(a, 1)) > CodeOf(Char(b, 1))

\* hasSalePrice comparing the two price texts without parseFloat
hasSalePriceLexical(v) ==
    /\ Truthy(Get(v, "compare_at_price"))
    /\ LexGreater(String(Get(v, "compare_at_price")), String(Get(v, "price")))

hasSalePrice(v) ==
    /\ Truthy(Get(v, "compare_at_price"))
    /\ GreaterThan(parseFloat(Get(v, "compare_at_price")), parseFloat(Get(v, "price")))

salePriceOf(v) ==
    IF hasSalePrice(v) THEN toFixed2(parseFloat(Get(v, "price"))) \o " " \o CURRENCY
    ELSE ""

regularPriceOf(v) ==
    IF hasSalePrice(v)
    THEN toFixed2(parseFloat(Get(v, "compare_at_price"))) \o " " \o CURRENCY
    ELSE toFixed2(parseFloat(Get(v, "price"))) \o " " \o CURRENCY

weightOf(v) ==
    IF Truthy(Get(v, "weight")) /\ GreaterThan(Get(v, "weight"), Num(0))
    THEN String(Get(v, "weight")) \o " " \o String(Or(Get(v, "weight_unit"), Str("kg")))
    ELSE ""

imageLinkOf(p) ==
    IF "images" \in DOMAIN p /\ Len(p.images) >= 1
    THEN Or(Get(p.images[1], "src"), Str(""))
    ELSE Str("")

additionalImagesOf(p) ==
    IF "images" \in DOMAIN p /\ Len(p.images) >= 2
    THEN Join([i \in 1..(Len(p.images) - 1) |-> JoinText(Get(p.images[i + 1], "src"))], ",")
    ELSE ""

titleOf(p, v) ==
    IF Get(v, "title") # Str("Default Title")
    THEN String(Get(p, "title")) \o " - " \o String(Get(v, "title"))
    ELSE String(Get(p, "title"))

\* the array `row`, in the case where no option lookup throws
itemRow(p, v) ==
    LET barcode == Or(Get(v, "barcode"), Str(""))
    IN  << Or(Get(v, "sku"),
              Str("shopify_" \o String(Get(p, "id")) \o "_" \o String(Get(v, "id")))),
           Str(titleOf(p, v)),
           Str(stripHtml(Get(p, "body_html"))),
           Str(SHOP_DOMAIN \o "/products/" \o String(Get(p, "handle"))),
           imageLinkOf(p),
           Str(additionalImagesOf(p)),
           Str(getAvailability(v, Get(p, "status"))),
           Str(regularPriceOf(v)),
           Str(salePriceOf(v)),
           Or(Get(p, "vendor"), Str("")),
           Str("new"),
           barcode,
           Str(IF Truthy(barcode) THEN "" ELSE "false"),
           Or(Get(p, "product_type"), Str("")),
           Get(p, "id"),
           colorOf(p, v),
           sizeOf(p, v),
           materialOf(p, v),
           Str(weightOf(v)) >>

\* buildItemRow: either it throws or it returns the joined line; `row` is the
\* array before escaping
\* row.map(escapeCsv).join(",")
lineOf(row) == Join([i \in 1..Len(row) |-> escapeCsv(row[i])], ",")

returnedRow(row) == [threw |-> FALSE, row |-> row, line |-> lineOf(row)]

\* one of the option lookups of lines 73 to 77 throws
rowThrows(p, v) == TypeError \in {colorOf(p, v), sizeOf(p, v), materialOf(p, v)}

buildItemRow(p, v) ==
    IF rowThrows(p, v) THEN [threw |-> TRUE] ELSE returnedRow(itemRow(p, v))

---------------------------------------------------------------------------
(* buildItemRow called on its own, on inputs drawn from bounded sets *)

\* the object r with property f set to v, and with property f deleted
With(r, f, v) == [x \in DOMAIN r \cup {f} |-> IF x = f THEN v ELSE r[x]]

Without(r, f) == [x \in DOMAIN r \ {f} |-> r[x]]

\* either the object r without property f, or r with f set to one of vals
Vary(r, f, vals, mayBeAbsent) ==
    {With(r, f, v) : v \in vals} \cup (IF mayBeAbsent THEN {Without(r, f)} ELSE {})

BaseProduct ==
    [ id |-> Num(7), title |-> Str("Lotion"), handle |-> Str("lotion"),
      body_html |-> Str("<p>Soft  &amp; <b>mild</b></p>\n"), vendor |-> Str("Acme"),
      product_type |-> Str("Care"), status |-> Str("active"),
      images |-> << [src |-> Str("https://cdn/a.png")] >>,
      options |-> << [name |-> Str("Title"), position |-> Num(1)] >> ]

BaseVariant ==
    [ id |-> Num(3), title |-> Str("Default Title"), price |-> Str("19.99"),
      inventory_management |-> Str("shopify"), inventory_quantity |-> Num(4),
      option1 |-> Str("Default Title") ]

NotCalled == [state |-> "pending"]

Returned == "line" \in DOMAIN outcome

Threw == "threw" \in DOMAIN outcome /\ outcome.threw

PipelineOff ==
    /\ env = [host |-> FALSE, token |-> FALSE]
    /\ pc = "off"
    /\ products = << >>
    /\ response = undefined
    /\ requests = << >>
    /\ served = << >>
    /\ rows = << >>
    /\ reply = [status |-> 0]

CallBuildItemRow ==
    /\ pc = "off"
    /\ outcome = NotCalled
    /\ outcome' = buildItemRow(product, variant)
    /\ UNCHANGED <<env, pc, products, response, requests, served, rows, reply,
                   product, variant>>

RowNext == CallBuildItemRow

(* getAvailability: status, management mode and quantity vary *)

MaxQuantity == 2

StatusValues == {Str("active"), Str("draft"), Str("archived")}

ManagementValues == {null, Str("shopify")}

QuantityValues == {Num(n) : n \in (-MaxQuantity)..MaxQuantity}

AvailProducts == Vary(BaseProduct, "status", StatusValues, TRUE)

AvailVariants ==
    UNION { Vary(v, "inventory_quantity", QuantityValues, TRUE) :
                v \in Vary(BaseVariant, "inventory_management", ManagementValues, TRUE) }

AvailInit ==
    /\ PipelineOff
    /\ product \in AvailProducts
    /\ variant \in AvailVariants
    /\ outcome = NotCalled

AvailSpec == AvailInit /\ [][RowNext]_vars

(* price tier: price and compare-at price vary *)

\* decimal texts as the catalog sends them, each with its value in hundredths
\* and its two-decimal rendering
PriceTable ==
    { [text |-> "9.99", cents |-> 999, fixed |-> "9.99"],
      [text |-> "10.00", cents |-> 1000, fixed |-> "10.00"],
      [text |-> "10", cents |-> 1000, fixed |-> "10.00"],
      [text |-> "9.9", cents |-> 990, fixed |-> "9.90"],
      [text |-> "19.99", cents |-> 1999, fixed |-> "19.99"],
      [text |-> "24.99", cents |-> 2499, fixed |-> "24.99"],
      [text |-> "100.00", cents |-> 10000, fixed |-> "100.00"],
      [text |-> "0.00", cents |-> 0, fixed |-> "0.00"] }

PriceValues == {Str(e.text) : e \in PriceTable}

PriceVariants ==
    UNION { Vary(v, "compare_at_price", PriceValues \cup {null, Str("")}, TRUE) :
                v \in Vary(BaseVariant, "price", PriceValues, FALSE) }

PriceInit ==
    /\ PipelineOff
    /\ product = BaseProduct
    /\ variant \in PriceVariants
    /\ outcome = NotCalled

PriceSpec == PriceInit /\ [][RowNext]_vars

(* escaping: the texts that reach the row hold commas, quotes and newlines *)

EscapeProducts ==
    UNION { UNION { UNION { Vary(p3, "id", {Num(7), Num(0)}, FALSE) :
        p3 \in Vary(p2, "images",
                    { << [src |-> Str("https://cdn/a.png")] >>,
                      << [src |-> Str("https://cdn/a.png")], [src |-> Str("https://cdn/b.png")],
                         [src |-> Str("https://cdn/c.png")] >>,
                      << [src |-> Str("https://cdn/a.png")], [src |-> Str("https://cdn/b,\"c\".png")] >> },
                    TRUE) } :
        p2 \in Vary(p1, "vendor", {Str("Acme"), Str("A,B \"C\"")}, TRUE) } :
        p1 \in Vary(BaseProduct, "title",
                    { Str("Lotion"), Str("Soap, mild"), Str("The \"Best\""), Str("Two\nlines"),
                      Str("\""), Str(",") }, FALSE) }

EscapeVariants ==
    UNION { Vary(v, "title", {Str("Default Title"), Str("50 ml, \"travel\"")}, FALSE) :
                v \in Vary(BaseVariant, "sku", {Str("SKU-1"), Str("S,\"1\"")}, TRUE) }

EscapeInit ==
    /\ PipelineOff
    /\ product \in EscapeProducts
    /\ variant \in EscapeVariants
    /\ outcome = NotCalled

EscapeSpec == EscapeInit /\ [][RowNext]_vars

(* data shape: optional data is present or missing *)

ShapeProducts ==
    UNION { UNION { UNION { UNION { Vary(p4, "product_type", {Str("Care")}, TRUE) :
        p4 \in Vary(p3, "vendor", {Str("Acme")}, TRUE) } :
        p3 \in Vary(p2, "body_html", {Str("<p>Soft</p>")}, TRUE) } :
        p2 \in Vary(p1, "options",
                    { << >>, << [position |-> Num(1)] >>,
                      << [name |-> Str("Color"), position |-> Num(1)] >> }, TRUE) } :
        p1 \in Vary(BaseProduct, "images",
                    { << >>, << [src |-> Str("https://cdn/a.png")] >> }, TRUE) }

ShapeVariants ==
    UNION { UNION { UNION { UNION { Vary(v4, "option1", {Str("Red")}, TRUE) :
        v4 \in Vary(v3, "weight_unit", {Str("g")}, TRUE) } :
        v3 \in Vary(v2, "weight", {Num(0), Num(250)}, TRUE) } :
        v2 \in Vary(v1, "barcode", {Str("4006381333931")}, TRUE) } :
        v1 \in Vary(BaseVariant, "sku", {Str("SKU-1")}, TRUE) }

ShapeInit ==
    /\ PipelineOff
    /\ product \in ShapeProducts
    /\ variant \in ShapeVariants
    /\ outcome = NotCalled

ShapeSpec == ShapeInit /\ [][RowNext]_vars

(* variant options: the option list and the three positional slots vary *)

MaxOptions == 3

OptionNames ==
    {"Color", "COLOR", "Farbe", "Size", "GR" \o UpperOUml \o SharpS \o "E", "Material"}

\* option lists with distinct names; positions follow the list order or run
\* against it
OptionLists ==
    UNION { { [i \in 1..n |-> [name |-> Str(names[i]),
                               position |-> Num(IF forward THEN i ELSE n + 1 - i)]] :
                  names \in {q \in [1..n -> OptionNames] :
                                 \A i, j \in 1..n : i # j => q[i] # q[j]},
                  forward \in BOOLEAN } :
            n \in 0..MaxOptions }

SlotVariants ==
    UNION { UNION { Vary(v2, "option3", {Str("c3")}, TRUE) :
        v2 \in Vary(v1, "option2", {Str(""), Str("b2")}, TRUE) } :
        v1 \in Vary(BaseVariant, "option1", {Str(""), Str("a1")}, TRUE) }

OptionInit ==
    /\ PipelineOff
    /\ product \in {With(BaseProduct, "options", o) : o \in OptionLists}
    /\ variant \in SlotVariants
    /\ outcome = NotCalled

OptionSpec == OptionInit /\ [][RowNext]_vars

---------------------------------------------------------------------------
(* GET and fetchAllProducts against a catalog source *)

\* the most page requests one run of the model sends
MaxRequests == 3

\* the most products the source serves in one run of the model
MaxProducts == 2

\* how many entries the two observation logs keep
MaxLog == MaxRequests

\* a log with one more entry; the oldest entry goes when the log is full
Record(log, x) ==
    IF Len(log) < MaxLog THEN Append(log, x) ELSE Append(Tail(log), x)

Lotion ==
    [ id |-> Num(7), title |-> Str("Lotion"), handle |-> Str("lotion"),
      body_html |-> Str("<p>Soft\n skin</p>"), product_type |-> Str("Care\nBody"),
      status |-> Str("active"),
      options |-> << [name |-> Str("Size"), position |-> Num(1)] >>,
      variants |->
          << [ id |-> Num(1), title |-> Str("50 ml"), price |-> Str("9.99"),
               compare_at_price |-> Str("10.00"), inventory_management |-> null,
               inventory_quantity |-> Num(0), option1 |-> Str("50 ml") ],
             [ id |-> Num(2), sku |-> Str("LOT-100"), title |-> Str("100 ml, \"XL\""),
               price |-> Str("19.99"), inventory_management |-> Str("shopify"),
               inventory_quantity |-> Num(0), option1 |-> Str("100 ml") ] >> ]

Draft ==
    [ id |-> Num(8), title |-> Str("Balm"), handle |-> Str("balm"), status |-> Str("draft"),
      variants |-> << With(BaseVariant, "id", Num(4)), With(BaseVariant, "id", Num(5)),
                      With(BaseVariant, "id", Num(6)) >> ]

\* an active product one of whose option entries has no name
Unnamed ==
    [ id |-> Num(9), title |-> Str("Soap"), handle |-> Str("soap"), status |-> Str("active"),
      options |-> << [position |-> Num(1)] >>,
      variants |-> << With(BaseVariant, "id", Num(10)) >> ]

Catalog == {Lotion, Draft, Unnamed}

\* response.body.products of one response
PageBodies == UNION { [1..n -> Catalog] : n \in 0..MaxProducts }

\* the cursor the source gives with its i-th response
CursorOf(i) == "c" \o NatToString(i)

Cursors == {CursorOf(i) : i \in 1..MaxRequests}

\* pageInfo.nextPage when the source reports a next page
NextPages ==
    { [t |-> "object", query |-> [limit |-> "250", page_info |-> c]] : c \in Cursors }

\* pageInfo.nextPage: absent, null, empty, or a next page
Tokens == {undefined, null, Str("")} \cup NextPages

\* params.query of the first request
InitialQuery ==
    [ fields |-> "id,title,handle,variants,images,body_html,vendor,product_type,status,options,tags",
      limit |-> "250" ]

\* the accumulator overwritten by the page instead of extended by it
concatReplace(acc, page) == page

\* products.concat(response.body.products)
concat(acc, page) == acc \o page

\* the loop condition: response.pageInfo?.nextPage
hasNextPage(next) == Truthy(next)

\* the next request sent with the first request's query
nextQueryRebuilt(next) == InitialQuery

\* query of the next request: response.pageInfo.nextPage.query
nextQuery(next) == next.query

\* no filter on the status
allProducts(ps) == ps

\* products.filter((p) => p.status === "active")
activeProducts(ps) == SelectSeq(ps, LAMBDA p : Get(p, "status") = Str("active"))

\* product.variants.map((variant) => buildItemRow(product, variant))
\* the lines of the calls' results, or the exception one of them threw
linesOf(built) ==
    IF \E i \in 1..Len(built) : built[i].threw THEN [threw |-> TRUE]
    ELSE [threw |-> FALSE, rows |-> [i \in 1..Len(built) |-> built[i].line]]

variantRows(p) ==
    IF "variants" \notin DOMAIN p THEN [threw |-> TRUE]
    ELSE linesOf([i \in 1..Len(p.variants) |-> buildItemRow(p, p.variants[i])])

\* the rows of one product followed by those of the products after it
flatten(first, rest) ==
    IF first.threw \/ rest.threw THEN [threw |-> TRUE]
    ELSE [threw |-> FALSE, rows |-> first.rows \o rest.rows]

RECURSIVE flatMapRows(_)
\* .flatMap(...) over the filtered products; an exception ends it
flatMapRows(ps) ==
    IF ps = << >> THEN [threw |-> FALSE, rows |-> << >>]
    ELSE flatten(variantRows(Head(ps)), flatMapRows(Tail(ps)))

FetchFailedMessage == "fetch failed"

TypeErrorMessage == "Cannot read properties of undefined (reading 'toLowerCase')"

MissingCredentialsBody == "{\"error\":\"Missing Shopify credentials\"}"

\* the catch block's response
errorReply(message) == [status |-> 500, type |-> "text/plain", body |-> message]

\* the response built from the fetched products, lines 154 to 167
feedReply(rs) ==
    [ status |-> 200, type |-> "text/csv; charset=utf-8",
      body |-> Join(<< Join(CSV_HEADERS, ",") >> \o rs, "\n") ]

\* GET after fetchAllProducts returned: the rows are built and the feed is
\* returned, or the exception reaches the catch block
GET_respond(built) ==
    IF built.threw
    THEN /\ reply' = errorReply(TypeErrorMessage)
         /\ UNCHANGED rows
    ELSE /\ rows' = built.rows
         /\ reply' = feedReply(built.rows)

NoCall ==
    /\ product = BaseProduct
    /\ variant = BaseVariant
    /\ outcome = NotCalled

Init ==
    /\ env \in [host : BOOLEAN, token : BOOLEAN]
    /\ pc = "idle"
    /\ products = << >>
    /\ response = undefined
    /\ requests = << >>
    /\ served = << >>
    /\ rows = << >>
    /\ reply = [status |-> 0]
    /\ NoCall

\* GET up to its first await: the credentials check, then the first request
GET_start ==
    /\ pc = "idle"
    /\ IF ~env.host \/ ~env.token
       THEN /\ reply' = [status |-> 500, type |-> "application/json",
                         body |-> MissingCredentialsBody]
            /\ pc' = "done"
            /\ UNCHANGED requests
       ELSE /\ requests' = Record(requests, InitialQuery)
            /\ pc' = "awaiting"
            /\ UNCHANGED reply
    /\ UNCHANGED <<env, products, response, served, rows, product, variant, outcome>>

\* a response arrives that reports a next page: it is appended and the next
\* page is requested
fetchAllProducts_next(page, next) ==
    /\ pc = "awaiting"
    /\ hasNextPage(next)
    /\ served' = Record(served, [products |-> page, nextPage |-> next])
    /\ products' = concat(products, page)
    /\ response' = next
    /\ requests' = Record(requests, nextQuery(next))
    /\ UNCHANGED <<env, pc, rows, reply, product, variant, outcome>>

\* a response arrives that reports no next page: fetchAllProducts returns and
\* GET runs to its end
GET_finish(page, next) ==
    /\ pc = "awaiting"
    /\ ~hasNextPage(next)
    /\ served' = Record(served, [products |-> page, nextPage |-> next])
    /\ products' = concat(products, page)
    /\ response' = next
    /\ GET_respond(flatMapRows(activeProducts(products')))
    /\ pc' = "done"
    /\ UNCHANGED <<env, requests, product, variant, outcome>>

\* a catch block that answers with the feed of the pages fetched so far
GET_catchPartial ==
    /\ pc = "awaiting"
    /\ GET_respond(flatMapRows(activeProducts(products)))
    /\ pc' = "done"
    /\ UNCHANGED <<env, products, response, requests, served, product, variant, outcome>>

\* the request in flight fails: the rejection reaches GET's catch block
GET_catch ==
    /\ pc = "awaiting"
    /\ reply' = errorReply(FetchFailedMessage)
    /\ pc' = "done"
    /\ UNCHANGED <<env, products, response, requests, served, rows, product, variant, outcome>>

\* the source serves at most MaxProducts products, reports a next page at most
\* MaxRequests - 1 times, and gives every page a cursor of its own
Next ==
    \/ GET_start
    \/ \E page \in PageBodies, next \in Tokens :
          /\ Len(products) + Len(page) <= MaxProducts
          /\ Len(requests) < MaxRequests
          /\ next \in NextPages => next.query.page_info = CursorOf(Len(served) + 1)
          /\ fetchAllProducts_next(page, next)
    \/ \E page \in PageBodies, next \in Tokens :
          /\ Len(products) + Len(page) <= MaxProducts
          /\ GET_finish(page, next)
    \/ GET_catch

Spec == Init /\ [][Next]_vars

\* a source that reports a next page on every response and never fails; once
\* it has served MaxProducts products its pages are empty
LoopNext ==
    \/ GET_start
    \/ \E page \in PageBodies, next \in NextPages :
          /\ Len(page) <= 1
          /\ Len(products) + Len(page) <= MaxProducts
          /\ fetchAllProducts_next(page, next)

\* every response that arrives is handled
LoopSpec == Init /\ [][LoopNext]_vars /\ WF_vars(LoopNext)

---------------------------------------------------------------------------
(* Reading a feed back, by the quoting rules of the format *)

RECURSIVE QuotedEnd(_, _)
\* the position of the quote that closes a quoted field whose text starts at
\* i, 0 when none does; a doubled quote stands for one quote of the text
QuotedEnd(s, i) ==
    IF i > Len(s) THEN 0
    ELSE IF Char(s, i) # "\"" THEN QuotedEnd(s, i + 1)
    ELSE IF i < Len(s) /\ Char(s, i + 1) = "\"" THEN QuotedEnd(s, i + 2)
    ELSE i

RECURSIVE Undouble(_)
Undouble(s) ==
    IF s = "" THEN ""
    ELSE IF Len(s) >= 2 /\ SubSeq(s, 1, 2) = "\"\"" THEN "\"" \o Undouble(Rest(s, 3))
    ELSE Char(s, 1) \o Undouble(Rest(s, 2))

RECURSIVE PlainEnd(_, _)
\* the position of the first comma at or after i, Len(s) + 1 when there is none
PlainEnd(s, i) ==
    IF i > Len(s) \/ Char(s, i) = "," THEN i ELSE PlainEnd(s, i + 1)

Malformed == << [ok |-> FALSE, raw |-> "", text |-> ""] >>

RECURSIVE ReadFields(_, _)
\* the fields of the line s from position i on: each as written and as read
ReadFields(s, i) ==
    IF i <= Len(s) /\ Char(s, i) = "\""
    THEN LET j == QuotedEnd(s, i + 1)
         IN  IF j = 0 THEN Malformed
             ELSE IF j = Len(s)
             THEN << [ok |-> TRUE, raw |-> SubSeq(s, i, j),
                      text |-> Undouble(SubSeq(s, i + 1, j - 1))] >>
             ELSE IF Char(s, j + 1) # "," THEN Malformed
             ELSE << [ok |-> TRUE, raw |-> SubSeq(s, i, j),
                      text |-> Undouble(SubSeq(s, i + 1, j - 1))] >> \o ReadFields(s, j + 2)
    ELSE LET e == PlainEnd(s, i)
         IN  IF e > Len(s)
             THEN << [ok |-> TRUE, raw |-> SubSeq(s, i, Len(s)), text |-> SubSeq(s, i, Len(s))] >>
             ELSE << [ok |-> TRUE, raw |-> SubSeq(s, i, e - 1), text |-> SubSeq(s, i, e - 1)] >>
                      \o ReadFields(s, e + 1)

Positions(s, c) == {i \in 1..Len(s) : Char(s, i) = c}

\* the newlines of s outside quotes: those with an even number of quotes
\* before them
RecordBreaks(s) ==
    {i \in Positions(s, "\n") :
        Cardinality({q \in Positions(s, "\"") : q < i}) % 2 = 0}

RECURSIVE SplitAt(_, _, _)
\* the pieces of s from position i on, cut at the positions in breaks
SplitAt(s, i, breaks) ==
    IF breaks = {} THEN << SubSeq(s, i, Len(s)) >>
    ELSE LET e == CHOOSE e \in breaks : \A f \in breaks : e <= f
         IN  << SubSeq(s, i, e - 1) >> \o SplitAt(s, e + 1, breaks \ {e})

\* the records of the document s
ReadRecords(s) == SplitAt(s, 1, RecordBreaks(s))

Contains(s, sub) ==
    \E i \in 1..(Len(s) - Len(sub) + 1) : SubSeq(s, i, i + Len(sub) - 1) = sub

CountQuotes(s) == Cardinality(Positions(s, "\""))

HeaderLine ==
    "id,title,description,link,image_link,additional_image_link,availability,price,sale_price,brand,condition,gtin,identifier_exists,product_type,item_group_id,color,size,material,shipping_weight"

---------------------------------------------------------------------------
(* Properties of fetchAllProducts and GET, under Spec and LoopSpec *)

\* a response without a continuation: nextPage absent, null or empty
NoToken(next) == next \in {undefined, null, Str("")}

CredentialsSet == env.host /\ env.token

\* fetchAllProducts returned: the last response had no continuation
FetchReturned ==
    /\ pc = "done"
    /\ served # << >>
    /\ NoToken(served[Len(served)].nextPage)

\* the request in flight failed
FetchFailed == pc = "done" /\ Len(requests) = Len(served) + 1

RECURSIVE ServedBefore(_)
\* how many products the pages before page i held
ServedBefore(i) ==
    IF i = 1 THEN 0 ELSE ServedBefore(i - 1) + Len(served[i - 1].products)

\* how many rows a product is to contribute
RowCount(p) == IF Get(p, "status") = Str("active") THEN Len(p.variants) ELSE 0

RECURSIVE RowsBefore(_, _)
\* how many rows the products before the i-th of ps are to contribute
RowsBefore(ps, i) ==
    IF i = 1 THEN 0 ELSE RowsBefore(ps, i - 1) + RowCount(ps[i - 1])

\* building a row of some active product among ps throws
SomeRowThrows(ps) ==
    \E i \in 1..Len(ps) :
        /\ Get(ps[i], "status") = Str("active")
        /\ \E j \in 1..Len(ps[i].variants) : rowThrows(ps[i], ps[i].variants[j])

\* C1: when the source serves N >= 1 pages of which only the last has no
\* continuation, the product sequence fetchAllProducts returns is the
\* concatenation of the pages in page order: its length is the sum of the page
\* lengths and the k-th product of page i stands at place (products of the pages
\* before i) + k.
C1_Concatenation ==
    FetchReturned =>
        /\ \A i \in 1..(Len(served) - 1) : ~NoToken(served[i].nextPage)
        /\ Len(products) = ServedBefore(Len(served) + 1)
        /\ \A i \in 1..Len(served) :
               \A k \in 1..Len(served[i].products) :
                   products[ServedBefore(i) + k] = served[i].products[k]

\* C1 witness: three pages were fetched, the second with one product and the
\* third with another one.
C1_Witness ==
    /\ FetchReturned
    /\ Len(served) = 3
    /\ Len(served[2].products) = 1
    /\ Len(served[3].products) = 1
    /\ served[2].products[1] # served[3].products[1]
    /\ products = << served[2].products[1], served[3].products[1] >>

\* C2: GET answers 200 or 500; when a page request failed, a row could not be
\* built or a credential is missing the answer is 500 and its body holds neither
\* the header nor any row; an answer of 200 is given only after the response
\* without continuation arrived, every request was answered, and the rows cover
\* the products of every page served.
C2_AllOrNothing ==
    pc = "done" =>
        /\ reply.status \in {200, 500}
        /\ (~CredentialsSet \/ FetchFailed \/ SomeRowThrows(products)) =>
               /\ reply.status = 500
               /\ ~Contains(reply.body, HeaderLine)
               /\ \A i \in 1..Len(products) :
                      \A j \in 1..RowCount(products[i]) :
                          ~rowThrows(products[i], products[i].variants[j]) =>
                              ~Contains(reply.body,
                                        buildItemRow(products[i], products[i].variants[j]).line)
        /\ reply.status = 200 =>
               /\ FetchReturned
               /\ Len(requests) = Len(served)
               /\ Len(products) = ServedBefore(Len(served) + 1)
               /\ Len(rows) = RowsBefore(products, Len(products) + 1)
               /\ Len(ReadRecords(reply.body)) = 1 + Len(rows)

\* C2 witness: the second page request failed after a first page with an
\* active product had been fetched, and the answer is the error.
C2_Witness ==
    /\ FetchFailed
    /\ Len(served) = 1
    /\ products = << Lotion >>
    /\ reply = [status |-> 500, type |-> "text/plain", body |-> FetchFailedMessage]

C4_EventuallyResponds == <>(pc = "done")

\* C5: one request per page and none after the end: at most one request is
\* unanswered, every response but the last reported a next page, nothing is
\* requested once a response without continuation or a failure arrived, the
\* first request carries the initial query and every later one the query of
\* the response just before it; a failure reaches the caller as it is.
C5_RequestDiscipline ==
    /\ Len(requests) <= Len(served) + 1
    /\ pc = "awaiting" => Len(requests) = Len(served) + 1
    /\ \A i \in 1..(Len(served) - 1) : ~NoToken(served[i].nextPage)
    /\ (served # << >> /\ NoToken(served[Len(served)].nextPage)) =>
           (pc = "done" /\ Len(requests) = Len(served))
    /\ requests # << >> => requests[1] = InitialQuery
    /\ \A i \in 2..Len(requests) : requests[i] = served[i - 1].nextPage.query
    /\ (CredentialsSet /\ FetchFailed) => reply = errorReply(FetchFailedMessage)

\* C5 witness: three requests were sent, the second and the third each with
\* the cursor of the response just before it.
C5_Witness ==
    /\ FetchReturned
    /\ Len(requests) = 3
    /\ served[1].nextPage.query.page_info = "c1"
    /\ served[2].nextPage.query.page_info = "c2"
    /\ requests[2].page_info = "c1"
    /\ requests[3].page_info = "c2"

---------------------------------------------------------------------------
(* Properties of buildItemRow, under the specifications that call it *)

\* the text a field of the row stands for: empty when missing or falsy
FieldText(v) == IF Truthy(v) THEN String(v) ELSE ""

HasSpecial(t) == Includes(t, "\"") \/ Includes(t, ",") \/ Includes(t, "\n")

\* C6: an active product's variant whose inventory management mode is null or
\* absent is "in_stock" for every quantity, and every variant of a product that
\* is not active is "out_of_stock".
C6_Availability ==
    Returned =>
        /\ ( /\ Get(product, "status") = Str("active")
             /\ Get(variant, "inventory_management") \in {null, undefined} )
               => outcome.row[7] = Str("in_stock")
        /\ Get(product, "status") # Str("active") => outcome.row[7] = Str("out_of_stock")

PriceEntry(text) == CHOOSE e \in PriceTable : e.text = text

\* compare-at price is present and numerically above price
OnSale ==
    LET cap == Get(variant, "compare_at_price")
    IN  /\ cap.t = "string"
        /\ cap.s # ""
        /\ PriceEntry(cap.s).cents > PriceEntry(variant.price.s).cents

\* C7: sale_price is non-empty exactly when compare-at price is present and
\* numerically above price; then sale_price is the price and the price field
\* the compare-at price, each with two decimals and " EUR"; otherwise the
\* price field is the price and sale_price is empty.
C7_SalePrice ==
    Returned =>
        /\ (outcome.row[9] # Str("")) <=> OnSale
        /\ OnSale =>
               /\ outcome.row[9] = Str(PriceEntry(variant.price.s).fixed \o " EUR")
               /\ outcome.row[8]
                      = Str(PriceEntry(variant.compare_at_price.s).fixed \o " EUR")
        /\ ~OnSale =>
               /\ outcome.row[8] = Str(PriceEntry(variant.price.s).fixed \o " EUR")
               /\ outcome.row[9] = Str("")
        /\ ReadFields(outcome.line, 1)[8].text = outcome.row[8].s
        /\ ReadFields(outcome.line, 1)[9].text = outcome.row[9].s

\* C7 witness: compare-at 9.99 against price 10.00, above it as text and below
\* it as a number, gave no sale price.
C7_Witness ==
    /\ Returned
    /\ variant.price = Str("10.00")
    /\ Get(variant, "compare_at_price") = Str("9.99")
    /\ outcome.row[8] = Str("10.00 EUR")
    /\ outcome.row[9] = Str("")

\* C8: every one of the 19 fields is escaped on its own: empty for a missing or
\* falsy value, wrapped in quotes with its quotes doubled when it holds a
\* quote, a comma or a newline, unchanged otherwise; so the line reads back
\* as exactly 19 fields, each with its text.
C8_Escaping ==
    Returned =>
        LET cells == ReadFields(outcome.line, 1)
        IN  /\ Len(outcome.row) = Len(CSV_HEADERS)
            /\ Len(cells) = Len(CSV_HEADERS)
            /\ \A i \in 1..Len(cells) :
                   LET t == FieldText(outcome.row[i])
                   IN  /\ cells[i].ok
                       /\ cells[i].text = t
                       /\ IF HasSpecial(t)
                          THEN /\ Len(cells[i].raw) = Len(t) + CountQuotes(t) + 2
                               /\ Char(cells[i].raw, 1) = "\""
                               /\ Char(cells[i].raw, Len(cells[i].raw)) = "\""
                          ELSE cells[i].raw = t

\* C8 witness: a title with quotes, a vendor with a comma and quotes, three
\* images and an id of 0 were written as one line.
C8_Witness ==
    /\ Returned
    /\ product.title = Str("The \"Best\"")
    /\ Get(product, "vendor") = Str("A,B \"C\"")
    /\ Get(product, "id") = Num(0)
    /\ "images" \in DOMAIN product
    /\ Len(product.images) = 3
    /\ Contains(outcome.line, "\"The \"\"Best\"\"\"")

\* C9: missing optional data never makes buildItemRow throw, and the fields
\* it would have filled are empty or take their default.
C9_NeverThrows ==
    outcome # NotCalled =>
        /\ Returned
        /\ ("images" \notin DOMAIN product \/ product.images = << >>) =>
               (outcome.row[5] = Str("") /\ outcome.row[6] = Str(""))
        /\ ("options" \notin DOMAIN product \/ product.options = << >>) =>
               (outcome.row[16] = Str("") /\ outcome.row[17] = Str("")
                    /\ outcome.row[18] = Str(""))
        /\ "body_html" \notin DOMAIN product => outcome.row[3] = Str("")
        /\ "vendor" \notin DOMAIN product => outcome.row[10] = Str("")
        /\ "product_type" \notin DOMAIN product => outcome.row[14] = Str("")
        /\ "sku" \notin DOMAIN variant => outcome.row[1] = Str("shopify_7_3")
        /\ "barcode" \notin DOMAIN variant => outcome.row[12] = Str("")
        /\ "weight" \notin DOMAIN variant => outcome.row[19] = Str("")

SlotKeys == << "option1", "option2", "option3" >>

\* the value of the slot named by the position of the first option whose name
\* is one of names; empty when there is no such option or no such value
SlotOf(names) ==
    LET hits == {i \in 1..Len(product.options) : product.options[i].name.s \in names}
    IN  IF hits = {} THEN ""
        ELSE LET i == CHOOSE i \in hits : \A j \in hits : i <= j
                 n == product.options[i].position.n
             IN  IF n \in 1..Len(SlotKeys) /\ SlotKeys[n] \in DOMAIN variant
                 THEN variant[SlotKeys[n]].s
                 ELSE ""

FirstNonEmpty(a, b) == IF a # "" THEN a ELSE b

\* C10: color is the slot value of the option named Color in any case when it
\* is non-empty, else that of the option named Farbe, else empty; size does the
\* same with Size and then the German name; material uses Material alone.
C10_OptionFallback ==
    Returned =>
        /\ outcome.row[16] = Str(FirstNonEmpty(SlotOf({"Color", "COLOR"}), SlotOf({"Farbe"})))
        /\ outcome.row[17]
               = Str(FirstNonEmpty(SlotOf({"Size"}),
                                   SlotOf({"GR" \o UpperOUml \o SharpS \o "E"})))
        /\ outcome.row[18] = Str(SlotOf({"Material"}))

\* C10 witness: the Color option's slot is empty, the Farbe option's slot is
\* not, and color is the Farbe value.
C10_Witness ==
    /\ Returned
    /\ product.options = << [name |-> Str("COLOR"), position |-> Num(2)],
                            [name |-> Str("Farbe"), position |-> Num(1)] >>
    /\ Get(variant, "option2") = Str("")
    /\ Get(variant, "option1") = Str("a1")
    /\ outcome.row[16] = Str("a1")

====
